---- MODULE Spec2Model ----
(***************************************************************************)
(* Pending-order lifecycle of the Orderly front end (OrderFlowApp).        *)
(*                                                                         *)
(* The model follows the localStorage revision of OrderFlowApp             *)
(* (src/src/components/OrderFlowApp.tsx, lines 295-597) together with the  *)
(* delivery dialog of the revision that keeps the original request         *)
(* (src/unnamed/part_009) and the PendingOrder type of that revision       *)
(* (src/unnamed/part_002, lines 16-24).  The handlers of the revision that *)
(* fills and reads originalItems / originalTotalAmount are not part of the *)
(* sources; the three places where they differ from the localStorage       *)
(* revision are isolated in OriginalItemsAtCreation,                       *)
(* OriginalTotalAtCreation, ItemsToSave, TotalToSave and OrdersAfterZeroing*)
(* and follow the specification text.                                      *)
(*                                                                         *)
(* Money is counted in cents, time in milliseconds since the epoch of the  *)
(* model; ids produced by crypto.randomUUID() are fresh natural numbers.   *)
(***************************************************************************)
EXTENDS Integers, Sequences, FiniteSets, TLC

\* ------------------------------------------------------------------ bounds
MaxIds == 3
MaxPending == 2
MaxQty == 2
MaxDays == 1
MaxStagedBatches == 1
MaxDialogBatches == 1
\* Orders one exploration of the direct save creates.
MaxDirectSaves == 1

\* --------------------------------------------------------- program constant
TWENTY_FOUR_HOURS_MS == 24 * 60 * 60 * 1000

\* ------------------------------------------------------------ input domains
\* The product catalog the staging area picks from: id, name, price in cents.
Catalog ==
  { [id |-> "p1", name |-> "Widget", price |-> 250],
    [id |-> "p2", name |-> "Gadget", price |-> 500] }

\* Customer names typed into the staging area, as sequences of characters.
CustomerNames ==
  { << >>, <<" ">>, <<"A", " ">> }

\* One staged line for a catalog product.
LineItem(p, q) ==
  [productId |-> p.id, productName |-> p.name, quantity |-> q, price |-> p.price]

\* Two catalog products by id.
Product(id) == CHOOSE p \in Catalog : p.id = id

\* products.find(p => p.id === id), for an id that is found.
ProductIn(ps, id) == CHOOSE p \in ps : p.id = id

\* Staged item lists: at most one line per product, every quantity positive.
\* The lists used: none, one line of the largest quantity, and two lines of which
\* the first can still grow and the second can only shrink.
StagedItemLists ==
  { << >>,
    << LineItem(Product("p1"), MaxQty) >>,
    << LineItem(Product("p1"), 1), LineItem(Product("p2"), MaxQty) >> }

VARIABLES
  pendingOrders,              \* useState<PendingOrder[]>
  orders,                     \* useState<Order[]>
  isLoadingPendingOrders,     \* useState(true)
  isLoadingOrders,            \* useState(true)
  initialAgedOrderCheckDone,  \* useState(false)
  localStorage,               \* the persisted 'pendingOrders', 'orders' and 'products' keys
  agedAlerts,                 \* ids of the "Aged Order Alert" toasts of this process
  last,                       \* the step taken last: handler, id argument, toast, batch resolved
  now,                        \* Date.now()
  nextId,                     \* next value of crypto.randomUUID()
  stagedItems,                \* OrderCreation: useState<OrderItem[]>([])
  currentCustomerName,        \* OrderCreation: useState<string>('')
  storeCalls,                 \* the Firestore mutations the last handler awaited
  isDeliveryDialogOpen,       \* useState(false)
  selectedPendingOrderForDialog, \* useState<PendingOrder | null>(null), a list of at most one
  dialogEditedItems,          \* DeliveryConfirmationDialog: editedItems, useState<OrderItem[]>([])
  products,                   \* useState<Product[]>([]), as a set
  currentOrderItems,          \* direct save: useState<OrderItem[]>([])
  isSavingOrder,              \* direct save: useState(false)
  savingOrder                 \* direct save: what a handleSaveOrder in flight closed over

vars == << pendingOrders, orders, isLoadingPendingOrders, isLoadingOrders,
           initialAgedOrderCheckDone, localStorage, agedAlerts, last, now, nextId,
           stagedItems, currentCustomerName, storeCalls,
           isDeliveryDialogOpen, selectedPendingOrderForDialog, dialogEditedItems,
           products, currentOrderItems, isSavingOrder, savingOrder >>

\* The state of the staging area (OrderCreation).
staging == << stagedItems, currentCustomerName >>

\* The state of the delivery dialog: whether it is open, the order it was
\* opened on, the copy of the items it edits.
dialog == << isDeliveryDialogOpen, selectedPendingOrderForDialog, dialogEditedItems >>

\* The state of the order being created in the revisions that save an order
\* directly, without a pending stage.
directSave == << currentOrderItems, isSavingOrder, savingOrder >>

\* ------------------------------------------------------------ pure helpers
\* A trim() that was forgotten.
TrimNothing(s) == s

\* The white space String.prototype.trim() strips.
IsWhiteSpace(c) == c \in {" ", "\t", "\n"}

RECURSIVE TrimStart(_)
TrimStart(s) ==
  IF s = << >> THEN << >>
  ELSE IF IsWhiteSpace(Head(s)) THEN TrimStart(Tail(s)) ELSE s

RECURSIVE TrimEnd(_)
TrimEnd(s) ==
  IF s = << >> THEN << >>
  ELSE IF IsWhiteSpace(s[Len(s)]) THEN TrimEnd(SubSeq(s, 1, Len(s) - 1)) ELSE s

\* customerName.trim()
Trim(s) == TrimEnd(TrimStart(s))

\* A reduce that adds the prices and forgets the quantities.
RECURSIVE TotalAmountIgnoringQuantity(_)
TotalAmountIgnoringQuantity(items) ==
  IF items = << >> THEN 0
  ELSE TotalAmountIgnoringQuantity(SubSeq(items, 1, Len(items) - 1))
         + items[Len(items)].price

\* items.reduce((total, item) => total + (item.price * item.quantity), 0)
RECURSIVE TotalAmountOf(_)
TotalAmountOf(items) ==
  IF items = << >> THEN 0
  ELSE TotalAmountOf(SubSeq(items, 1, Len(items) - 1))
         + items[Len(items)].price * items[Len(items)].quantity

\* A find that falls back to the last pending order.
FindIndexOrLast(list, id) ==
  IF \E i \in 1..Len(list) : list[i].id = id
  THEN CHOOSE i \in 1..Len(list) : list[i].id = id
  ELSE Len(list)

\* A find that falls back to the first pending order.
FindIndexOrFirst(list, id) ==
  IF \E i \in 1..Len(list) : list[i].id = id
  THEN CHOOSE i \in 1..Len(list) : list[i].id = id
  ELSE IF Len(list) > 0 THEN 1 ELSE 0

\* pendingOrders.find(po => po.id === pendingOrderId): the index, 0 when absent.
FindIndex(list, id) ==
  IF \E i \in 1..Len(list) : list[i].id = id
  THEN CHOOSE i \in 1..Len(list) :
         list[i].id = id /\ \A j \in 1..(i - 1) : list[j].id # id
  ELSE 0

\* prev.slice(1) in place of the filter: the head goes, whatever its id.
WithoutIdFromHead(list, id) == Tail(list)

\* A filter with === in place of !==: only the named order stays.
WithoutIdInverted(list, id) == SelectSeq(list, LAMBDA po : po.id = id)

\* prev.filter(po => po.id !== pendingOrderId)
WithoutId(list, id) == SelectSeq(list, LAMBDA po : po.id # id)

\* Array.prototype.sort with comparator (a, b) => time(b[field]) - time(a[field]):
\* a stable sort, descending by the date field.  InsertDescending puts x behind
\* every element whose date is at least its own.
InsertDescending(sorted, x, field) ==
  LET k == Cardinality({ i \in 1..Len(sorted) : sorted[i][field] >= x[field] })
  IN  SubSeq(sorted, 1, k) \o <<x>> \o SubSeq(sorted, k + 1, Len(sorted))

RECURSIVE SortDescending(_, _)
SortDescending(list, field) ==
  IF list = << >> THEN << >>
  ELSE InsertDescending(SortDescending(SubSeq(list, 1, Len(list) - 1), field),
                        list[Len(list)], field)

\* --------------------------------------------------------------- the entities
\* originalItems of a new batch: the items as originally added to the batch.
OriginalItemsAtCreation(itemsToAdd) == itemsToAdd

\* originalTotalAmount of a new batch: the total as originally calculated.
OriginalTotalAtCreation(totalAmount) == totalAmount

\* const newPendingOrder: PendingOrderType = { id, customerName, items, totalAmount, createdAt }
\* with the two original fields the PendingOrder type of part_002 declares.
NewPendingOrder(id, customerName, itemsToAdd, createdAt) ==
  [ id                  |-> id,
    customerName        |-> customerName,
    items               |-> itemsToAdd,
    totalAmount         |-> TotalAmountOf(itemsToAdd),
    originalItems       |-> OriginalItemsAtCreation(itemsToAdd),
    originalTotalAmount |-> OriginalTotalAtCreation(TotalAmountOf(itemsToAdd)),
    createdAt           |-> createdAt ]

\* The Order of a resolved batch made from what is still pending.
ItemsToSaveCurrent(orderToSave) == orderToSave.items

\* The items and the total a resolved batch hands to its Order.
ItemsToSave(orderToSave) == orderToSave.originalItems

TotalToSave(orderToSave) == orderToSave.originalTotalAmount

\* const newOrder: OrderType = { id, customerName, items, totalAmount, orderDate }
NewOrder(id, orderToSave, orderDate) ==
  [ id           |-> id,
    customerName |-> orderToSave.customerName,
    items        |-> ItemsToSave(orderToSave),
    totalAmount  |-> TotalToSave(orderToSave),
    orderDate    |-> orderDate ]

\* setOrders([newOrder]): the history is replaced, not extended.
OrdersWithReplaced(prev, newOrder) == << newOrder >>

\* setOrders(prev => [newOrder, ...prev].sort(newest orderDate first))
OrdersWith(prev, newOrder) == SortDescending(<<newOrder>> \o prev, "orderDate")

\* setPendingOrders(prev => [...prev, newPendingOrder]), without the sort.
PendingOrdersWithAppended(prev, newPendingOrder) == Append(prev, newPendingOrder)

\* setPendingOrders(prev => [newPendingOrder, ...prev].sort(newest createdAt first))
PendingOrdersWith(prev, newPendingOrder) ==
  SortDescending(<<newPendingOrder>> \o prev, "createdAt")

\* An update that keeps the total of the items it replaces.
UpdatedPendingOrderStaleTotal(po, updatedItems) == [po EXCEPT !.items = updatedItems]

\* An update that also writes the edited items over the original ones.
UpdatedPendingOrderOverwritingOriginal(po, updatedItems) ==
  [po EXCEPT !.items = updatedItems,
             !.totalAmount = TotalAmountOf(updatedItems),
             !.originalItems = updatedItems,
             !.originalTotalAmount = TotalAmountOf(updatedItems)]

\* po.id === pendingOrderId ? { ...po, items: updatedItems, totalAmount: newTotalAmount } : po
UpdatedPendingOrder(po, updatedItems) ==
  [po EXCEPT !.items = updatedItems, !.totalAmount = TotalAmountOf(updatedItems)]

\* A map without the test of the id: every pending order gets the edited items.
PendingOrdersUpdatedAll(prev, pendingOrderId, updatedItems) ==
  SortDescending([ i \in 1..Len(prev) |-> UpdatedPendingOrder(prev[i], updatedItems) ],
                 "createdAt")

\* setPendingOrders(prev => prev.map(...).sort(newest createdAt first))
PendingOrdersUpdated(prev, pendingOrderId, updatedItems) ==
  SortDescending(
    [ i \in 1..Len(prev) |->
        IF prev[i].id = pendingOrderId
        THEN UpdatedPendingOrder(prev[i], updatedItems) ELSE prev[i] ],
    "createdAt")

\* Zeroing that only clears the batch from the queue.
OrdersAfterZeroingUnsaved(prev, orderToUpdate, id, orderDate) == prev

\* The history after every pending quantity of a batch was set to 0: the
\* original request of the batch is saved as an Order.
OrdersAfterZeroing(prev, orderToUpdate, id, orderDate) ==
  OrdersWith(prev, NewOrder(id, orderToUpdate, orderDate))

\* ------------------------------------------------------- the delivery dialog
\* handleQuantityChange: item.quantity becomes Math.max(0, newQuantity).
QuantityChanged(newQuantity) == IF newQuantity > 0 THEN newQuantity ELSE 0

\* Every list the dialog can hold after editing a deep copy of order.items:
\* the same lines in the same order, each quantity typed anew.
EditedItemLists(items) ==
  { [ i \in 1..Len(items) |-> [items[i] EXCEPT !.quantity = QuantityChanged(q[i])] ] :
      q \in [1..Len(items) -> 0..MaxQty] }

\* No filter: the lines of quantity 0 stay.
ValidUpdatedItemsUnfiltered(editedItems) == editedItems

\* A filter that also drops the lines of quantity 1.
ValidUpdatedItemsOffByOne(editedItems) ==
  SelectSeq(editedItems, LAMBDA item : item.quantity > 1)

\* const validUpdatedItems = editedItems.filter(item => item.quantity > 0)
ValidUpdatedItems(editedItems) == SelectSeq(editedItems, LAMBDA item : item.quantity > 0)

\* ------------------------------------------------------------ the effects
\* The guard without the flag that ends the check.
AgedOrderCheckRunsIgnoringDone(loading, os, done) == ~loading /\ Len(os) > 0

\* The guard of the aged-order effect.
AgedOrderCheckRuns(loading, os, done) == ~loading /\ Len(os) > 0 /\ ~done

\* The difference taken the wrong way round.
IsAgedReversed(o, t) == o.orderDate - t > TWENTY_FOUR_HOURS_MS

\* differenceInMilliseconds(now, orderDate) > TWENTY_FOUR_HOURS_MS
IsAged(o, t) == t - o.orderDate > TWENTY_FOUR_HOURS_MS

\* The ids of the orders the forEach of the effect raises a toast for, in order.
AgedOrderToasts(os, t) ==
  LET aged == SelectSeq(os, LAMBDA o : IsAged(o, t))
  IN  [ i \in 1..Len(aged) |-> aged[i].id ]

\* The aged-order effect, run after a render in which orders changed.  When it
\* runs it sets initialAgedOrderCheckDone, one of its dependencies, so the
\* effect is entered once more after the next render.
AgedOrderCheckEffect(loading, os) ==
  LET firstRun  == AgedOrderCheckRuns(loading, os, initialAgedOrderCheckDone)
      secondRun == /\ firstRun
                   /\ ~initialAgedOrderCheckDone
                   /\ AgedOrderCheckRuns(loading, os, TRUE)
  IN  /\ agedAlerts' = agedAlerts
                         \o (IF firstRun THEN AgedOrderToasts(os, now) ELSE << >>)
                         \o (IF secondRun THEN AgedOrderToasts(os, now) ELSE << >>)
      /\ initialAgedOrderCheckDone' = (initialAgedOrderCheckDone \/ firstRun)

\* What the save effects of one render leave in storage: each list is written
\* under its key unless that render still has it loading.
Saved(storage, loadingPending, loadingOrders, ps, os) ==
  [ pendingOrders |-> IF loadingPending THEN storage.pendingOrders ELSE ps,
    orders        |-> IF loadingOrders THEN storage.orders ELSE os,
    products      |-> storage.products ]

\* The save effects of the two lists: each writes its list once loading has
\* ended.  The products key is written by the save effect of the products.
SaveEffects(loadingPending, loadingOrders, ps, os) ==
  localStorage' = Saved(localStorage, loadingPending, loadingOrders, ps, os)

Loaded == ~isLoadingPendingOrders /\ ~isLoadingOrders

\* What a step leaves behind for inspection: the handler that ran, the number it
\* was given (a pending order id or a quantity, 0 when it takes none), the title
\* of the toast it raised ("none" when it raised none) and, in a list of at most one, the pending order as the handler
\* found it when the step turned it into an Order.
Ran(op, id, title, resolved) ==
  last' = [op |-> op, id |-> id, toast |-> title, resolved |-> resolved]

\* pendingOrders.find(po => po.id === pendingOrderId) as a list of at most one.
Found(pendingOrderId) ==
  LET i == FindIndex(pendingOrders, pendingOrderId)
  IN  IF i = 0 THEN << >> ELSE << pendingOrders[i] >>

\* A handler that returns early changes none of these.
NothingElseChanges ==
  UNCHANGED << pendingOrders, orders, isLoadingPendingOrders, isLoadingOrders,
               initialAgedOrderCheckDone, localStorage, agedAlerts, now, nextId >>

\* ------------------------------------------------------------------- Init
Init ==
  /\ pendingOrders = << >>
  /\ orders = << >>
  /\ isLoadingPendingOrders = TRUE
  /\ isLoadingOrders = TRUE
  /\ initialAgedOrderCheckDone = FALSE
  /\ localStorage = [pendingOrders |-> << >>, orders |-> << >>, products |-> Catalog]
  /\ agedAlerts = << >>
  /\ last = [op |-> "none", id |-> 0, toast |-> "none", resolved |-> << >>]
  /\ now = 0
  /\ nextId = 1
  /\ stagedItems = << >>
  /\ currentCustomerName = << >>
  /\ storeCalls = << >>
  /\ isDeliveryDialogOpen = FALSE
  /\ selectedPendingOrderForDialog = << >>
  /\ dialogEditedItems = << >>
  /\ products = {}
  /\ currentOrderItems = << >>
  /\ isSavingOrder = FALSE
  /\ savingOrder = << >>

\* ---------------------------------------------------------------- actions
\* A mount effect that reads the products and the orders only: the pending
\* orders stay as empty as the first render has them, and are saved so.
LoadFromLocalStorageWithoutPendingOrders ==
  /\ isLoadingPendingOrders /\ isLoadingOrders
  /\ products' = localStorage.products
  /\ pendingOrders' = pendingOrders
  /\ orders' = localStorage.orders
  /\ isLoadingPendingOrders' = FALSE
  /\ isLoadingOrders' = FALSE
  /\ localStorage' =
       Saved(Saved(localStorage, isLoadingPendingOrders, isLoadingOrders,
                   pendingOrders, orders),
             FALSE, FALSE, pendingOrders', orders')
  /\ AgedOrderCheckEffect(FALSE, orders')
  /\ Ran("load", 0, "none", << >>)
  /\ UNCHANGED << now, nextId >>

\* The mount: the load effect reads the lists from localStorage and ends
\* loading, the save effects of the first render run behind it with the values
\* of that render, and the save effects of the next render with the lists read.
LoadFromLocalStorage ==
  /\ isLoadingPendingOrders /\ isLoadingOrders
  /\ products' = localStorage.products
  /\ pendingOrders' = localStorage.pendingOrders
  /\ orders' = localStorage.orders
  /\ isLoadingPendingOrders' = FALSE
  /\ isLoadingOrders' = FALSE
  /\ localStorage' =
       Saved(Saved(localStorage, isLoadingPendingOrders, isLoadingOrders,
                   pendingOrders, orders),
             FALSE, FALSE, pendingOrders', orders')
  /\ AgedOrderCheckEffect(FALSE, orders')
  /\ Ran("load", 0, "none", << >>)
  /\ UNCHANGED << now, nextId >>

\* The page is closed and opened again: a new process with fresh component state.
Restart ==
  /\ Loaded
  /\ pendingOrders' = << >>
  /\ orders' = << >>
  /\ isLoadingPendingOrders' = TRUE
  /\ isLoadingOrders' = TRUE
  /\ initialAgedOrderCheckDone' = FALSE
  /\ agedAlerts' = << >>
  /\ stagedItems' = << >>
  /\ currentCustomerName' = << >>
  /\ Ran("restart", 0, "none", << >>)
  /\ isDeliveryDialogOpen' = FALSE
  /\ selectedPendingOrderForDialog' = << >>
  /\ dialogEditedItems' = << >>
  /\ products' = {}
  /\ UNCHANGED << localStorage, now, nextId, storeCalls, directSave >>

\* Time passes: exactly a day, or a day and a millisecond.
Tick ==
  /\ now < MaxDays * TWENTY_FOUR_HOURS_MS
  /\ \E d \in {TWENTY_FOUR_HOURS_MS, TWENTY_FOUR_HOURS_MS + 1} : now' = now + d
  /\ Ran("tick", 0, "none", << >>)
  /\ UNCHANGED << pendingOrders, orders, isLoadingPendingOrders, isLoadingOrders,
                  initialAgedOrderCheckDone, localStorage, agedAlerts, nextId >>

handleAddItemsToPendingList(customerName, itemsToAdd) ==
  /\ Loaded
  /\ IF Trim(customerName) = << >>
     THEN /\ Ran("handleAddItemsToPendingList", 0, "Customer Name Required", << >>)
          /\ NothingElseChanges
     ELSE IF Len(itemsToAdd) = 0
     THEN /\ Ran("handleAddItemsToPendingList", 0, "No Items Staged", << >>)
          /\ NothingElseChanges
     ELSE /\ nextId <= MaxIds
          /\ Len(pendingOrders) < MaxPending
          /\ pendingOrders' =
               PendingOrdersWith(pendingOrders,
                                 NewPendingOrder(nextId, customerName, itemsToAdd, now))
          /\ nextId' = nextId + 1
          /\ SaveEffects(FALSE, FALSE, pendingOrders', orders)
          /\ Ran("handleAddItemsToPendingList", 0, "Order Batch Added to Queue", << >>)
          /\ UNCHANGED << orders, isLoadingPendingOrders, isLoadingOrders,
                          initialAgedOrderCheckDone, agedAlerts, now >>

handleConfirmFullDelivery(pendingOrderId) ==
  /\ Loaded
  /\ LET i == FindIndex(pendingOrders, pendingOrderId)
     IN  IF i = 0
         THEN /\ Ran("handleConfirmFullDelivery", pendingOrderId, "Error", << >>)
              /\ NothingElseChanges
         ELSE /\ orders' = OrdersWith(orders, NewOrder(nextId, pendingOrders[i], now))
              /\ pendingOrders' = WithoutId(pendingOrders, pendingOrderId)
              /\ nextId' = nextId + 1
              /\ SaveEffects(FALSE, FALSE, pendingOrders', orders')
              /\ AgedOrderCheckEffect(FALSE, orders')
              /\ Ran("handleConfirmFullDelivery", pendingOrderId, "Order Fully Delivered!",
                     Found(pendingOrderId))
              /\ UNCHANGED << isLoadingPendingOrders, isLoadingOrders, now >>

\* The handler without its branch for an empty list: the batch is updated to
\* the items it is given, whatever their number.
handleUpdatePendingOrderQuantitiesWithoutEmptyCheck(pendingOrderId, updatedItems) ==
  LET i == FindIndex(pendingOrders, pendingOrderId)
  IN  IF i = 0
      THEN NothingElseChanges
      ELSE /\ pendingOrders' =
                PendingOrdersUpdated(pendingOrders, pendingOrderId, updatedItems)
           /\ SaveEffects(FALSE, FALSE, pendingOrders', orders)
           /\ UNCHANGED << orders, isLoadingPendingOrders, isLoadingOrders,
                           initialAgedOrderCheckDone, agedAlerts, now, nextId >>

\* The handler leaves the last toast to the dialog that calls it.
handleUpdatePendingOrderQuantities(pendingOrderId, updatedItems) ==
  LET i == FindIndex(pendingOrders, pendingOrderId)
  IN  IF i = 0
      THEN NothingElseChanges
      ELSE IF Len(updatedItems) = 0
      THEN IF pendingOrders[i].originalItems # << >>
           THEN /\ orders' = OrdersAfterZeroing(orders, pendingOrders[i], nextId, now)
                /\ pendingOrders' = WithoutId(pendingOrders, pendingOrderId)
                /\ nextId' = nextId + 1
                /\ SaveEffects(FALSE, FALSE, pendingOrders', orders')
                /\ AgedOrderCheckEffect(FALSE, orders')
                /\ UNCHANGED << isLoadingPendingOrders, isLoadingOrders, now >>
           ELSE NothingElseChanges
      ELSE /\ pendingOrders' =
                PendingOrdersUpdated(pendingOrders, pendingOrderId, updatedItems)
           /\ SaveEffects(FALSE, FALSE, pendingOrders', orders)
           /\ UNCHANGED << orders, isLoadingPendingOrders, isLoadingOrders,
                           initialAgedOrderCheckDone, agedAlerts, now, nextId >>

\* The toast the dialog raises after calling the handler.
DialogToast(orderItems, editedItems) ==
  LET validUpdatedItems == ValidUpdatedItems(editedItems)
      itemsWithZeroQuantityCount ==
        Len(SelectSeq(editedItems, LAMBDA item : item.quantity = 0))
      originalPendingItemCount == Len(orderItems)
  IN  IF /\ itemsWithZeroQuantityCount > 0
         /\ Len(validUpdatedItems) = 0
         /\ originalPendingItemCount > 0
      THEN "Pending Order Finalized"
      ELSE IF /\ Len(validUpdatedItems) < originalPendingItemCount
              /\ Len(validUpdatedItems) > 0
      THEN "Pending Order Updated"
      ELSE IF /\ Len(validUpdatedItems) = originalPendingItemCount
              /\ originalPendingItemCount > 0
              /\ editedItems # orderItems
      THEN "Pending Order Updated"
      ELSE "none"

\* The dialog's "Update Pending Order" for the order it shows: the lines of
\* positive quantity go to the handler, then the dialog raises its toast.
handleUpdatePending(orderId, orderItems, editedItems) ==
  /\ Loaded
  /\ handleUpdatePendingOrderQuantities(orderId, ValidUpdatedItems(editedItems))
  /\ Ran("handleUpdatePending", orderId, DialogToast(orderItems, editedItems),
         IF Len(orders') > Len(orders) THEN Found(orderId) ELSE << >>)

handleRemovePendingOrder(pendingOrderId) ==
  /\ Loaded
  /\ IF FindIndex(pendingOrders, pendingOrderId) = 0
     THEN /\ NothingElseChanges
          /\ Ran("handleRemovePendingOrder", pendingOrderId, "none", << >>)
     ELSE /\ pendingOrders' = WithoutId(pendingOrders, pendingOrderId)
          /\ SaveEffects(FALSE, FALSE, pendingOrders', orders)
          /\ Ran("handleRemovePendingOrder", pendingOrderId, "Pending Order Removed", << >>)
          /\ UNCHANGED << orders, isLoadingPendingOrders, isLoadingOrders,
                          initialAgedOrderCheckDone, agedAlerts, now, nextId >>

\* The items of the order the dialog shows for an id: the stored items of the
\* batch, or one catalog line when the batch is no longer pending.
DialogItemsFor(pendingOrderId) ==
  LET i == FindIndex(pendingOrders, pendingOrderId)
  IN  IF i # 0 THEN { pendingOrders[i].items }
      ELSE { <<LineItem(p, 1)>> : p \in Catalog }

\* ------------------------------------------------------- the staging area
\* The values typed into the quantity field and the product ids the select can
\* hold: none, a catalog product, a product deleted after it was selected.
TypedQuantities == {-1, 0, 1, MaxQty}

SelectedProductIds == {"", "p1", "p2", "p9"}

\* onChange of the quantity field: parseInt(e.target.value, 10) || 1
ParsedQuantity(typed) == IF typed = 0 THEN 1 ELSE typed

\* prevItems.findIndex(item => item.productId === selectedProductId), from 1;
\* 0 when there is none.
FindItemIndex(items, productId) ==
  IF \E i \in 1..Len(items) : items[i].productId = productId
  THEN CHOOSE i \in 1..Len(items) :
         /\ items[i].productId = productId
         /\ \A j \in 1..(i - 1) : items[j].productId # productId
  ELSE 0

\* An updater that brings the line of the product up to date with the catalog.
StagedWithRefreshed(prevItems, product, quantity) ==
  LET existingItemIndex == FindItemIndex(prevItems, product.id)
  IN  IF existingItemIndex > 0
      THEN [prevItems EXCEPT ![existingItemIndex] =
              LineItem(product, prevItems[existingItemIndex].quantity + quantity)]
      ELSE Append(prevItems, LineItem(product, quantity))

\* An updater that always appends a line.
StagedWithAppended(prevItems, product, quantity) ==
  Append(prevItems, LineItem(product, quantity))

\* The updater of handleStageItem: the quantity of the line of the product
\* grows by the staged quantity, or a new line is appended.
StagedWith(prevItems, product, quantity) ==
  LET existingItemIndex == FindItemIndex(prevItems, product.id)
  IN  IF existingItemIndex > 0
      THEN [prevItems EXCEPT ![existingItemIndex].quantity = @ + quantity]
      ELSE Append(prevItems, LineItem(product, quantity))

\* The title of the toast the updater of handleStageItem raises.
StagedToast(prevItems, product) ==
  IF FindItemIndex(prevItems, product.id) > 0 THEN "Quantity Updated" ELSE "Item Staged"

\* Math.max(0, newQuantity), as in the delivery dialog.
ClampedQuantityAtZero(newQuantity) == IF newQuantity > 0 THEN newQuantity ELSE 0

\* Math.max(1, newQuantity)
ClampedQuantity(newQuantity) == IF newQuantity > 1 THEN newQuantity ELSE 1

\* prev.map(item => item.productId === productId
\*                    ? { ...item, quantity: Math.max(1, newQuantity) } : item)
WithStagedQuantity(prev, productId, newQuantity) ==
  [ i \in 1..Len(prev) |->
      IF prev[i].productId = productId
      THEN [prev[i] EXCEPT !.quantity = ClampedQuantity(newQuantity)]
      ELSE prev[i] ]

\* prev.filter(item => item.productId !== productId)
WithoutProduct(prev, productId) ==
  SelectSeq(prev, LAMBDA item : item.productId # productId)

\* A handler of the staging area that returns after a toast.
StagingRefused(op, n, title) ==
  /\ Ran(op, n, title, << >>)
  /\ NothingElseChanges
  /\ UNCHANGED << staging, storeCalls, dialog, products, directSave >>

\* A handler of the staging area that changes the staged items only.
StagingChanged(op, n, title, items) ==
  /\ stagedItems' = items
  /\ Ran(op, n, title, << >>)
  /\ NothingElseChanges
  /\ UNCHANGED << currentCustomerName, storeCalls, dialog, products, directSave >>

\* onChange of the customer name field.
setCurrentCustomerName(value) ==
  /\ Loaded
  /\ currentCustomerName' = value
  /\ Ran("setCurrentCustomerName", 0, "none", << >>)
  /\ NothingElseChanges
  /\ UNCHANGED << stagedItems, storeCalls, dialog, products, directSave >>

handleStageItem(selectedProductId, quantity) ==
  /\ Loaded
  /\ IF Trim(currentCustomerName) = << >>
     THEN StagingRefused("handleStageItem", quantity, "Customer Name Required")
     ELSE IF selectedProductId = ""
     THEN StagingRefused("handleStageItem", quantity, "Select Product")
     ELSE IF quantity <= 0
     THEN StagingRefused("handleStageItem", quantity, "Invalid Quantity")
     ELSE IF ~(\E p \in products : p.id = selectedProductId)
     THEN StagingRefused("handleStageItem", quantity, "Error")
     ELSE LET product == ProductIn(products, selectedProductId)
              items   == StagedWith(stagedItems, product, quantity)
          IN  /\ \A i \in 1..Len(items) : items[i].quantity <= MaxQty
              /\ StagingChanged("handleStageItem", quantity, StagedToast(stagedItems, product), items)

handleUpdateStagedItemQuantity(productId, newQuantity) ==
  /\ Loaded
  /\ StagingChanged("handleUpdateStagedItemQuantity", newQuantity, "none",
                    WithStagedQuantity(stagedItems, productId, newQuantity))

handleRemoveStagedItem(productId) ==
  /\ Loaded
  /\ StagingChanged("handleRemoveStagedItem", 0,
                    IF FindItemIndex(stagedItems, productId) > 0
                    THEN "Item Unstaged" ELSE "none",
                    WithoutProduct(stagedItems, productId))

\* The staged items go to the pending queue and the staging area is cleared;
\* the step is recorded as the handleAddItemsToPendingList it calls.
handleAddAllStagedToPendingList ==
  /\ Loaded
  /\ IF Trim(currentCustomerName) = << >>
     THEN StagingRefused("handleAddAllStagedToPendingList", 0, "Customer Name Missing")
     ELSE IF Len(stagedItems) = 0
     THEN StagingRefused("handleAddAllStagedToPendingList", 0, "No Items Staged")
     ELSE /\ nextId <= MaxStagedBatches
          /\ handleAddItemsToPendingList(currentCustomerName, stagedItems)
          /\ currentCustomerName' = << >>
          /\ stagedItems' = << >>
          /\ UNCHANGED << storeCalls, dialog, products, directSave >>

\* ------------------------------------------------------------ specifications
\* The order lifecycle: batches are created from the staged lists of
\* StagedItemLists; the staging area itself stays as it is.
Next ==
  \/ LoadFromLocalStorage /\ UNCHANGED << staging, storeCalls, dialog, directSave >>
  \/ Restart
  \/ Tick /\ UNCHANGED << staging, storeCalls, dialog, products, directSave >>
  \/ \E customerName \in CustomerNames, itemsToAdd \in StagedItemLists :
       handleAddItemsToPendingList(customerName, itemsToAdd) /\ UNCHANGED << staging, storeCalls, dialog, products, directSave >>
  \/ \E pendingOrderId \in 1..MaxIds :
       handleConfirmFullDelivery(pendingOrderId) /\ UNCHANGED << staging, storeCalls, dialog, products, directSave >>
  \/ \E pendingOrderId \in 1..MaxIds :
       \E orderItems \in DialogItemsFor(pendingOrderId) :
         \E editedItems \in EditedItemLists(orderItems) :
           handleUpdatePending(pendingOrderId, orderItems, editedItems) /\ UNCHANGED << staging, storeCalls, dialog, products, directSave >>
  \/ \E pendingOrderId \in 1..MaxIds :
       handleRemovePendingOrder(pendingOrderId) /\ UNCHANGED << staging, storeCalls, dialog, products, directSave >>

Spec == Init /\ [][Next]_vars

\* The staging area in front of the lifecycle, within one mount and at one
\* time: the batches are created from what was staged.
StagingNext ==
  \/ LoadFromLocalStorage /\ UNCHANGED << staging, storeCalls, dialog, directSave >>
  \/ \E value \in CustomerNames : setCurrentCustomerName(value)
  \/ \E selectedProductId \in SelectedProductIds, typed \in TypedQuantities :
       handleStageItem(selectedProductId, ParsedQuantity(typed))
  \/ \E p \in Catalog, newQuantity \in 0..MaxQty :
       handleUpdateStagedItemQuantity(p.id, newQuantity)
  \/ \E p \in Catalog : handleRemoveStagedItem(p.id)
  \/ handleAddAllStagedToPendingList
  \/ \E pendingOrderId \in 1..MaxIds :
       handleConfirmFullDelivery(pendingOrderId) /\ UNCHANGED << staging, storeCalls, dialog, products, directSave >>
  \/ \E pendingOrderId \in 1..MaxIds :
       \E orderItems \in DialogItemsFor(pendingOrderId) :
         \E editedItems \in EditedItemLists(orderItems) :
           handleUpdatePending(pendingOrderId, orderItems, editedItems) /\ UNCHANGED << staging, storeCalls, dialog, products, directSave >>
  \/ \E pendingOrderId \in 1..MaxIds :
       handleRemovePendingOrder(pendingOrderId) /\ UNCHANGED << staging, storeCalls, dialog, products, directSave >>

StagingSpec == Init /\ [][StagingNext]_vars

\* ------------------------------------------------- the Firestore revision
\* The revision whose stores are the Firestore collections 'pendingOrders' and
\* 'orders', written through the mutations of usePendingOrders and useOrders.
\* pendingOrders and orders stand for the collections; the snapshot listener
\* and the refetch hand every write to the component before the next handler
\* runs.  A document of this revision has no originalItems.

\* How an awaited mutation can end.
Outcomes == {"ok", "rejected"}

\* The toast the onSuccess or onError callback of a mutation raises.
MutationToast(mutation, outcome) ==
  IF outcome = "rejected"
  THEN CASE mutation = "addPendingOrder"    -> "Error Adding to Queue"
         [] mutation = "updatePendingOrder" -> "Error Updating Pending Order"
         [] mutation = "deletePendingOrder" -> "Error Removing Pending Order"
         [] mutation = "addOrder"           -> "Error Saving Order"
  ELSE IF mutation = "addPendingOrder" THEN "Order Batch Added to Queue" ELSE "none"

\* One call of mutateAsync: the mutation, how it ended, the toast of its callback.
StoreCall(mutation, outcome) ==
  [mutation |-> mutation, outcome |-> outcome, toast |-> MutationToast(mutation, outcome)]

\* A try block without its catch: every await is reached.
AwaitedWithoutCatch(calls) == calls

\* The awaits of a try block, in order: a rejected one throws into the catch,
\* so the ones behind it are not reached.
RECURSIVE Awaited(_)
Awaited(calls) ==
  IF calls = << >> THEN << >>
  ELSE IF Head(calls).outcome = "rejected" THEN << Head(calls) >>
  ELSE << Head(calls) >> \o Awaited(Tail(calls))

\* The mutation was reached and resolved.
Resolved(calls, mutation) ==
  \E k \in 1..Len(calls) : calls[k].mutation = mutation /\ calls[k].outcome = "ok"

\* The catch block was entered.
Caught(calls) == \E k \in 1..Len(calls) : calls[k].outcome = "rejected"

\* addDoc of a pending order: the data of the handler, the id of the new
\* document and the server timestamp.
PendingOrderDoc(id, customerName, itemsToAdd, createdAt) ==
  [ id |-> id, customerName |-> customerName, items |-> itemsToAdd,
    totalAmount |-> TotalAmountOf(itemsToAdd), createdAt |-> createdAt ]

\* addDoc of an order: the data handleConfirmFullDelivery passes to addOrder.
OrderDoc(id, orderToSave, orderDate) ==
  [ id |-> id, customerName |-> orderToSave.customerName, items |-> orderToSave.items,
    totalAmount |-> orderToSave.totalAmount, orderDate |-> orderDate ]

\* updateDoc(doc, { items, totalAmount }) on the document of that id.
PendingOrdersWithDocUpdated(prev, id, updatedItems) ==
  [ k \in 1..Len(prev) |->
      IF prev[k].id = id
      THEN [prev[k] EXCEPT !.items = updatedItems, !.totalAmount = TotalAmountOf(updatedItems)]
      ELSE prev[k] ]

\* What a handler of this revision leaves alone.
NotInFirestore ==
  UNCHANGED << isLoadingPendingOrders, isLoadingOrders, localStorage, now >>

\* setSelectedPendingOrderForDialog(null), the last statement of a try block:
\* reached when no await was rejected.
SelectedAfter(calls) ==
  IF Caught(calls) THEN selectedPendingOrderForDialog ELSE << >>

\* An effect of the dialog that initialises the edited items once and keeps
\* them over closing and reopening.
DialogEffectOnce ==
  dialogEditedItems' =
    IF selectedPendingOrderForDialog' = << >> THEN << >>
    ELSE IF dialogEditedItems = << >> THEN selectedPendingOrderForDialog'[1].items
    ELSE dialogEditedItems

\* The effect of the dialog on [order, isOpen]: when either changed, the edited
\* items become a deep copy of the items of the order, or empty without one.
DialogEffect ==
  dialogEditedItems' =
    IF /\ selectedPendingOrderForDialog' = selectedPendingOrderForDialog
       /\ isDeliveryDialogOpen' = isDeliveryDialogOpen
    THEN dialogEditedItems
    ELSE IF selectedPendingOrderForDialog' = << >> THEN << >>
    ELSE selectedPendingOrderForDialog'[1].items

\* A handler called while the dialog stays as open or closed as it is.
DialogStays == UNCHANGED isDeliveryDialogOpen /\ DialogEffect

\* A handler that returns before its try block.
ReturnsEarly(op, id, title) ==
  /\ Ran(op, id, title, << >>)
  /\ storeCalls' = << >>
  /\ NothingElseChanges
  /\ UNCHANGED selectedPendingOrderForDialog

\* The first snapshot of the pending orders and the first fetch of the orders
\* have arrived.  The handlers below are the async handlers of this revision,
\* each with the outcomes of the mutations it awaits.
onSnapshot ==
  /\ isLoadingPendingOrders /\ isLoadingOrders
  /\ isLoadingPendingOrders' = FALSE
  /\ isLoadingOrders' = FALSE
  /\ AgedOrderCheckEffect(FALSE, orders)
  /\ Ran("onSnapshot", 0, "none", << >>)
  /\ UNCHANGED << pendingOrders, orders, localStorage, now, nextId, storeCalls >>

handleAddItemsToPendingListAsync(customerName, itemsToAdd, outcome) ==
  /\ Loaded
  /\ IF Trim(customerName) = << >>
     THEN ReturnsEarly("handleAddItemsToPendingList", 0, "Customer Name Required")
     ELSE IF Len(itemsToAdd) = 0
     THEN ReturnsEarly("handleAddItemsToPendingList", 0, "No Items Staged")
     ELSE LET calls == Awaited(<< StoreCall("addPendingOrder", outcome) >>)
              added == Resolved(calls, "addPendingOrder")
          IN  /\ added => (nextId <= MaxIds /\ Len(pendingOrders) < MaxPending)
              /\ storeCalls' = calls
              /\ pendingOrders' =
                   IF added
                   THEN PendingOrdersWith(pendingOrders,
                          PendingOrderDoc(nextId, customerName, itemsToAdd, now))
                   ELSE pendingOrders
              /\ nextId' = IF added THEN nextId + 1 ELSE nextId
              /\ Ran("handleAddItemsToPendingList", 0, calls[Len(calls)].toast, << >>)
              /\ UNCHANGED << orders, initialAgedOrderCheckDone, agedAlerts,
                              selectedPendingOrderForDialog >>
              /\ NotInFirestore

handleConfirmFullDeliveryAsync(pendingOrderId, addOutcome, deleteOutcome) ==
  /\ Loaded
  /\ LET i == FindIndex(pendingOrders, pendingOrderId)
     IN  IF i = 0
         THEN ReturnsEarly("handleConfirmFullDelivery", pendingOrderId, "Error")
         ELSE LET calls   == Awaited(<< StoreCall("addOrder", addOutcome),
                                        StoreCall("deletePendingOrder", deleteOutcome) >>)
                  added   == Resolved(calls, "addOrder")
                  deleted == Resolved(calls, "deletePendingOrder")
              IN  /\ added => nextId <= MaxIds
                  /\ storeCalls' = calls
                  /\ orders' = IF added
                               THEN OrdersWith(orders, OrderDoc(nextId, pendingOrders[i], now))
                               ELSE orders
                  /\ nextId' = IF added THEN nextId + 1 ELSE nextId
                  /\ pendingOrders' = IF deleted
                                      THEN WithoutId(pendingOrders, pendingOrderId)
                                      ELSE pendingOrders
                  /\ AgedOrderCheckEffect(FALSE, orders')
                  /\ Ran("handleConfirmFullDelivery", pendingOrderId,
                         IF Caught(calls) THEN "Delivery Error" ELSE "Order Fully Delivered!",
                         IF deleted THEN Found(pendingOrderId) ELSE << >>)
                  /\ selectedPendingOrderForDialog' = SelectedAfter(calls)
                  /\ NotInFirestore

handleUpdatePendingOrderQuantitiesAsync(pendingOrderId, updatedItems, outcome) ==
  /\ Loaded
  /\ LET i == FindIndex(pendingOrders, pendingOrderId)
     IN  IF i = 0
         THEN ReturnsEarly("handleUpdatePendingOrderQuantities", pendingOrderId, "none")
         ELSE LET calls   == Awaited(<< StoreCall(IF Len(updatedItems) = 0
                                                  THEN "deletePendingOrder"
                                                  ELSE "updatePendingOrder", outcome) >>)
                  deleted == Resolved(calls, "deletePendingOrder")
                  updated == Resolved(calls, "updatePendingOrder")
              IN  /\ storeCalls' = calls
                  /\ pendingOrders' =
                       IF deleted THEN WithoutId(pendingOrders, pendingOrderId)
                       ELSE IF updated
                       THEN PendingOrdersWithDocUpdated(pendingOrders, pendingOrderId, updatedItems)
                       ELSE pendingOrders
                  /\ Ran("handleUpdatePendingOrderQuantities", pendingOrderId,
                         IF Caught(calls) THEN "Update Error"
                         ELSE IF deleted THEN "Order Cleared" ELSE "none",
                         << >>)
                  /\ selectedPendingOrderForDialog' = SelectedAfter(calls)
                  /\ UNCHANGED << orders, initialAgedOrderCheckDone, agedAlerts, nextId >>
                  /\ NotInFirestore

handleRemovePendingOrderAsync(pendingOrderId, outcome) ==
  /\ Loaded
  /\ IF FindIndex(pendingOrders, pendingOrderId) = 0
     THEN ReturnsEarly("handleRemovePendingOrder", pendingOrderId, "none")
     ELSE LET calls   == Awaited(<< StoreCall("deletePendingOrder", outcome) >>)
              deleted == Resolved(calls, "deletePendingOrder")
          IN  /\ storeCalls' = calls
              /\ pendingOrders' = IF deleted
                                  THEN WithoutId(pendingOrders, pendingOrderId)
                                  ELSE pendingOrders
              /\ Ran("handleRemovePendingOrder", pendingOrderId,
                     IF Caught(calls) THEN "Removal Error" ELSE "Pending Order Removed",
                     << >>)
              /\ UNCHANGED << orders, initialAgedOrderCheckDone, agedAlerts, nextId,
                              selectedPendingOrderForDialog >>
              /\ NotInFirestore

\* The lifecycle of the Firestore revision within one mount: every mutation a
\* handler awaits resolves or rejects.
FirestoreNext ==
  \/ onSnapshot /\ UNCHANGED << staging, dialog, products, directSave >>
  \/ \E customerName \in CustomerNames, itemsToAdd \in StagedItemLists, outcome \in Outcomes :
       /\ handleAddItemsToPendingListAsync(customerName, itemsToAdd, outcome)
       /\ DialogStays /\ UNCHANGED << staging, products, directSave >>
  \/ \E pendingOrderId \in 1..MaxIds, addOutcome \in Outcomes, deleteOutcome \in Outcomes :
       /\ handleConfirmFullDeliveryAsync(pendingOrderId, addOutcome, deleteOutcome)
       /\ DialogStays /\ UNCHANGED << staging, products, directSave >>
  \/ \E pendingOrderId \in 1..MaxIds, outcome \in Outcomes :
       \E orderItems \in DialogItemsFor(pendingOrderId) :
         \E editedItems \in EditedItemLists(orderItems) :
           /\ handleUpdatePendingOrderQuantitiesAsync(pendingOrderId,
                                                      ValidUpdatedItems(editedItems), outcome)
           /\ DialogStays /\ UNCHANGED << staging, products, directSave >>
  \/ \E pendingOrderId \in 1..MaxIds, outcome \in Outcomes :
       /\ handleRemovePendingOrderAsync(pendingOrderId, outcome)
       /\ DialogStays /\ UNCHANGED << staging, products, directSave >>

FirestoreSpec == Init /\ [][FirestoreNext]_vars

\* ------------------------------- the delivery dialog of the Firestore revision
\* "Manage Delivery" on a pending order of the list: the dialog opens on the
\* order object of this render.
handleOpenDeliveryDialog(pendingOrder) ==
  /\ Loaded
  /\ selectedPendingOrderForDialog' = << pendingOrder >>
  /\ isDeliveryDialogOpen' = TRUE
  /\ DialogEffect
  /\ Ran("handleOpenDeliveryDialog", pendingOrder.id, "none", << >>)
  /\ storeCalls' = << >>
  /\ NothingElseChanges

\* The items of the dialog with the quantity of one product typed anew.
WithEditedQuantity(prevItems, productId, newQuantity) ==
  [ k \in 1..Len(prevItems) |->
      IF prevItems[k].productId = productId
      THEN [prevItems[k] EXCEPT !.quantity = QuantityChanged(newQuantity)]
      ELSE prevItems[k] ]

\* The minus button, the plus button or the number field of one line.
handleQuantityChange(productId, newQuantity) ==
  /\ Loaded
  /\ isDeliveryDialogOpen
  /\ selectedPendingOrderForDialog # << >>
  /\ dialogEditedItems' = WithEditedQuantity(dialogEditedItems, productId, newQuantity)
  /\ Ran("handleQuantityChange", newQuantity, "none", << >>)
  /\ storeCalls' = << >>
  /\ NothingElseChanges
  /\ UNCHANGED << isDeliveryDialogOpen, selectedPendingOrderForDialog >>

\* "Cancel", Escape or a click outside: onOpenChange(false).
onOpenChange(open) ==
  /\ Loaded
  /\ isDeliveryDialogOpen
  /\ isDeliveryDialogOpen' = open
  /\ UNCHANGED selectedPendingOrderForDialog
  /\ DialogEffect
  /\ Ran("onOpenChange", 0, "none", << >>)
  /\ storeCalls' = << >>
  /\ NothingElseChanges

\* "Confirm Full Delivery": the handler is called with the id of the order of
\* the dialog, and the dialog closes.
handleConfirmDelivery(addOutcome, deleteOutcome) ==
  /\ isDeliveryDialogOpen
  /\ selectedPendingOrderForDialog # << >>
  /\ Len(selectedPendingOrderForDialog[1].items) > 0
  /\ handleConfirmFullDeliveryAsync(selectedPendingOrderForDialog[1].id,
                                    addOutcome, deleteOutcome)
  /\ isDeliveryDialogOpen' = FALSE
  /\ DialogEffect

\* "Update Pending Order": the edited lines of positive quantity go to the
\* handler with the id of the order of the dialog, and the dialog closes.
handleUpdatePendingOfDialog(outcome) ==
  /\ isDeliveryDialogOpen
  /\ selectedPendingOrderForDialog # << >>
  /\ handleUpdatePendingOrderQuantitiesAsync(selectedPendingOrderForDialog[1].id,
                                             ValidUpdatedItems(dialogEditedItems), outcome)
  /\ isDeliveryDialogOpen' = FALSE
  /\ DialogEffect

\* The updates another client of the collection can make to a pending order:
\* the lists its own dialog can submit, other than the stored one.
RemoteUpdates(pendingOrder) ==
  { ValidUpdatedItems(edited) : edited \in EditedItemLists(pendingOrder.items) }
    \ { << >>, pendingOrder.items }

\* The snapshot listener delivers an update of another client: the query data
\* is replaced; the dialog keeps the order object it was opened on.
onSnapshotOfRemoteUpdate(pendingOrderId, updatedItems) ==
  /\ Loaded
  /\ FindIndex(pendingOrders, pendingOrderId) # 0
  /\ pendingOrders' = PendingOrdersWithDocUpdated(pendingOrders, pendingOrderId, updatedItems)
  /\ Ran("onSnapshot", pendingOrderId, "none", << >>)
  /\ storeCalls' = << >>
  /\ UNCHANGED << orders, isLoadingPendingOrders, isLoadingOrders,
                  initialAgedOrderCheckDone, localStorage, agedAlerts, now, nextId, dialog >>

\* The Firestore revision as used through its dialog, next to another client
\* that updates the same collection.  The dialog is modal: the list is used
\* while it is closed.
DialogNext ==
  \/ onSnapshot /\ UNCHANGED << staging, dialog, products, directSave >>
  \/ \E customerName \in CustomerNames, itemsToAdd \in StagedItemLists, outcome \in Outcomes :
       /\ ~isDeliveryDialogOpen
       /\ Len(pendingOrders) < MaxDialogBatches
       /\ handleAddItemsToPendingListAsync(customerName, itemsToAdd, outcome)
       /\ DialogStays /\ UNCHANGED << staging, products, directSave >>
  \/ \E k \in 1..Len(pendingOrders) :
       /\ ~isDeliveryDialogOpen
       /\ handleOpenDeliveryDialog(pendingOrders[k]) /\ UNCHANGED << staging, products, directSave >>
  \/ \E p \in Catalog, newQuantity \in 0..MaxQty :
       handleQuantityChange(p.id, newQuantity) /\ UNCHANGED << staging, products, directSave >>
  \/ onOpenChange(FALSE) /\ UNCHANGED << staging, products, directSave >>
  \/ \E addOutcome \in Outcomes, deleteOutcome \in Outcomes :
       handleConfirmDelivery(addOutcome, deleteOutcome) /\ UNCHANGED << staging, products, directSave >>
  \/ \E outcome \in Outcomes :
       handleUpdatePendingOfDialog(outcome) /\ UNCHANGED << staging, products, directSave >>
  \/ \E pendingOrderId \in 1..MaxIds, outcome \in Outcomes :
       /\ ~isDeliveryDialogOpen
       /\ handleRemovePendingOrderAsync(pendingOrderId, outcome)
       /\ DialogStays /\ UNCHANGED << staging, products, directSave >>
  \/ \E k \in 1..Len(pendingOrders) :
       \E updatedItems \in RemoteUpdates(pendingOrders[k]) :
         onSnapshotOfRemoteUpdate(pendingOrders[k].id, updatedItems) /\ UNCHANGED << staging, products, directSave >>

DialogSpec == Init /\ [][DialogNext]_vars

\* ------------------------------------------------------ the product catalog
\* What the product form can turn a product into: a new name, a new price.
EditedProducts ==
  { [id |-> "p1", name |-> "Gizmo", price |-> 250],
    [id |-> "p1", name |-> "Widget", price |-> 300] }

\* prev.map(p => p.id === updatedProduct.id ? updatedProduct : p)
ProductsWithUpdated(prev, updatedProduct) ==
  { IF p.id = updatedProduct.id THEN updatedProduct ELSE p : p \in prev }

\* prev.filter(p => p.id !== productId)
ProductsWithout(prev, productId) == { p \in prev : p.id # productId }

\* A handler of the catalog: the products change and their save effect writes
\* them; nothing else does.
CatalogChanged(op, title, ps) ==
  /\ Loaded
  /\ products' = ps
  /\ localStorage' = [localStorage EXCEPT !.products = ps]
  /\ Ran(op, 0, title, << >>)
  /\ UNCHANGED << pendingOrders, orders, isLoadingPendingOrders, isLoadingOrders,
                  initialAgedOrderCheckDone, agedAlerts, now, nextId >>

handleUpdateProduct(updatedProduct) ==
  CatalogChanged("handleUpdateProduct", "Product Updated",
                 ProductsWithUpdated(products, updatedProduct))

handleDeleteProduct(productId) ==
  CatalogChanged("handleDeleteProduct",
                 IF \E p \in products : p.id = productId THEN "Product Deleted" ELSE "none",
                 ProductsWithout(products, productId))

\* The catalog is edited while lines of its products are staged, pending and
\* saved, within one mount and at one time.
CatalogNext ==
  \/ LoadFromLocalStorage /\ UNCHANGED << staging, storeCalls, dialog, directSave >>
  \/ \E value \in {<<"A", " ">>} : setCurrentCustomerName(value)
  \/ \E selectedProductId \in SelectedProductIds :
       handleStageItem(selectedProductId, 1)
  \/ handleAddAllStagedToPendingList
  \/ \E pendingOrderId \in 1..MaxIds :
       handleConfirmFullDelivery(pendingOrderId)
         /\ UNCHANGED << staging, storeCalls, dialog, products, directSave >>
  \/ \E updatedProduct \in EditedProducts :
       handleUpdateProduct(updatedProduct)
         /\ UNCHANGED << staging, storeCalls, dialog, directSave >>
  \/ \E p \in Catalog :
       handleDeleteProduct(p.id) /\ UNCHANGED << staging, storeCalls, dialog, directSave >>

CatalogSpec == Init /\ [][CatalogNext]_vars

\* ------------------------------ the staging area of the Firestore revision
\* OrderCreation handed the async handleAddItemsToPendingList of the Firestore
\* revision as its onAddItemsToPendingList.

\* The first snapshot has arrived and fetchProducts has resolved with the
\* products of the store.
fetchProducts ==
  /\ onSnapshot
  /\ products' = localStorage.products
  /\ UNCHANGED << staging, dialog, directSave >>

\* handleAddAllStagedToPendingList calls the handler without awaiting it and
\* clears the staging area in the same turn; the mutation the handler awaits
\* ends afterwards, with its own toast as the last one.
handleAddAllStagedToPendingListAsync(outcome) ==
  /\ Loaded
  /\ IF Trim(currentCustomerName) = << >>
     THEN StagingRefused("handleAddAllStagedToPendingList", 0, "Customer Name Missing")
     ELSE IF Len(stagedItems) = 0
     THEN StagingRefused("handleAddAllStagedToPendingList", 0, "No Items Staged")
     ELSE /\ nextId <= MaxStagedBatches
          /\ handleAddItemsToPendingListAsync(currentCustomerName, stagedItems, outcome)
          /\ currentCustomerName' = << >>
          /\ stagedItems' = << >>
          /\ DialogStays
          /\ UNCHANGED << products, directSave >>

\* The staging area in front of the Firestore store, within one mount.
StagingFirestoreNext ==
  \/ fetchProducts
  \/ \E value \in CustomerNames : setCurrentCustomerName(value)
  \/ \E selectedProductId \in SelectedProductIds, typed \in TypedQuantities :
       handleStageItem(selectedProductId, ParsedQuantity(typed))
  \/ \E p \in Catalog, newQuantity \in 0..MaxQty :
       handleUpdateStagedItemQuantity(p.id, newQuantity)
  \/ \E p \in Catalog : handleRemoveStagedItem(p.id)
  \/ \E outcome \in Outcomes : handleAddAllStagedToPendingListAsync(outcome)

StagingFirestoreSpec == Init /\ [][StagingFirestoreNext]_vars

\* ------------------------------------------- the revision that saves directly
\* The revision without a pending stage: items are added to the current order
\* and handleSaveOrder turns it into an Order after a delay.  Its isClient is
\* the end of loading: the loading flags stand for its negation.

\* What is left of this revision's state by a handler that returns early or
\* changes one part of it.
DirectSaveRest ==
  UNCHANGED << pendingOrders, isLoadingPendingOrders, isLoadingOrders,
               initialAgedOrderCheckDone, agedAlerts, now, products,
               stagedItems, storeCalls, dialog >>

\* The mount effect: setIsClient(true), products and orders are read from
\* localStorage, and the save effects of the next render write them back.
setIsClient ==
  /\ isLoadingPendingOrders /\ isLoadingOrders
  /\ isLoadingPendingOrders' = FALSE
  /\ isLoadingOrders' = FALSE
  /\ products' = localStorage.products
  /\ orders' = localStorage.orders
  /\ Ran("setIsClient", 0, "none", << >>)
  /\ UNCHANGED << pendingOrders, initialAgedOrderCheckDone, localStorage, agedAlerts,
                  now, nextId, staging, storeCalls, dialog, directSave >>

\* onSetCustomerName of the order being created.
onSetCustomerName(value) ==
  /\ Loaded
  /\ currentCustomerName' = value
  /\ Ran("onSetCustomerName", 0, "none", << >>)
  /\ UNCHANGED << orders, localStorage, nextId, directSave >>
  /\ DirectSaveRest

\* The items a handleSaveOrder in flight closed over, after the updater of
\* handleAddItemToOrder ran: the line objects of the closed-over array are the
\* line objects of the current order, so a quantity added to one of them in
\* place is added in the closed-over array too; a line appended is not in it.
ClosedOverAfterAdd(saving, productId, quantity) ==
  IF saving = << >> THEN << >>
  ELSE << [saving[1] EXCEPT !.items =
             [ k \in 1..Len(saving[1].items) |->
                 IF saving[1].items[k].productId = productId
                 THEN [saving[1].items[k] EXCEPT !.quantity = @ + quantity]
                 ELSE saving[1].items[k] ]] >>

handleAddItemToOrder(productId, quantity) ==
  /\ Loaded
  /\ IF ~(\E p \in products : p.id = productId)
     THEN /\ Ran("handleAddItemToOrder", quantity, "Error", << >>)
          /\ UNCHANGED << orders, localStorage, nextId, currentCustomerName, directSave >>
          /\ DirectSaveRest
     ELSE LET product == ProductIn(products, productId)
              items   == StagedWith(currentOrderItems, product, quantity)
          IN  /\ \A i \in 1..Len(items) : items[i].quantity <= MaxQty
              /\ currentOrderItems' = items
              /\ savingOrder' = ClosedOverAfterAdd(savingOrder, productId, quantity)
              /\ Ran("handleAddItemToOrder", quantity,
                     IF FindItemIndex(currentOrderItems, productId) > 0
                     THEN "Quantity Updated" ELSE "Item Added", << >>)
              /\ UNCHANGED << orders, localStorage, nextId, currentCustomerName, isSavingOrder >>
              /\ DirectSaveRest

\* handleSaveOrder up to its await: the checks, setIsSavingOrder(true), and the
\* customer name, the items and the memoised total of this render closed over.
handleSaveOrder ==
  /\ Loaded
  /\ ~isSavingOrder
  /\ IF Trim(currentCustomerName) = << >>
     THEN /\ Ran("handleSaveOrder", 0, "Customer Name Required", << >>)
          /\ UNCHANGED << orders, localStorage, nextId, currentCustomerName, directSave >>
          /\ DirectSaveRest
     ELSE IF Len(currentOrderItems) = 0
     THEN /\ Ran("handleSaveOrder", 0, "Empty Order", << >>)
          /\ UNCHANGED << orders, localStorage, nextId, currentCustomerName, directSave >>
          /\ DirectSaveRest
     ELSE /\ nextId <= MaxDirectSaves
          /\ isSavingOrder' = TRUE
          /\ savingOrder' = << [ customerName |-> currentCustomerName,
                                 items        |-> currentOrderItems,
                                 totalAmount  |-> TotalAmountOf(currentOrderItems) ] >>
          /\ Ran("handleSaveOrder", 0, "none", << >>)
          /\ UNCHANGED << orders, localStorage, nextId, currentCustomerName, currentOrderItems >>
          /\ DirectSaveRest

\* The Order handleSaveOrder builds after its await.
SavedOrder(id, saving, orderDate) ==
  [ id |-> id, customerName |-> saving.customerName, items |-> saving.items,
    totalAmount |-> saving.totalAmount, orderDate |-> orderDate ]

\* handleSaveOrder after its await: the Order is put in front of the orders, the
\* current order and the customer name are cleared, and the save effect of the
\* orders writes them.
handleSaveOrderResumed ==
  /\ isSavingOrder
  /\ savingOrder # << >>
  /\ orders' = << SavedOrder(nextId, savingOrder[1], now) >> \o orders
  /\ nextId' = nextId + 1
  /\ currentOrderItems' = << >>
  /\ currentCustomerName' = << >>
  /\ isSavingOrder' = FALSE
  /\ savingOrder' = << >>
  /\ localStorage' = [localStorage EXCEPT !.orders = orders']
  /\ Ran("handleSaveOrderResumed", 0, "Order Saved!", << >>)
  /\ DirectSaveRest

\* The order being created and its save, within one mount and at one time.
DirectSaveNext ==
  \/ setIsClient
  \/ \E value \in CustomerNames : onSetCustomerName(value)
  \/ \E productId \in {"p1", "p2", "p9"}, quantity \in 1..MaxQty :
       handleAddItemToOrder(productId, quantity)
  \/ handleSaveOrder
  \/ handleSaveOrderResumed

DirectSaveSpec == Init /\ [][DirectSaveNext]_vars

\* ================================================================ the claims
\* Notions used to state the claims, independent of the handlers' helpers.
IsBlank(name) == \A k \in 1..Len(name) : name[k] \in {" ", "\t", "\n"}

SumOfLines(items) ==
  LET sum[k \in 0..Len(items)] ==
        IF k = 0 THEN 0 ELSE sum[k - 1] + items[k].price * items[k].quantity
  IN  sum[Len(items)]

IdsOf(list) == { list[k].id : k \in 1..Len(list) }

IsPending(id) == id \in IdsOf(pendingOrders)

PendingOrderOf(id) ==
  pendingOrders[CHOOSE k \in 1..Len(pendingOrders) : pendingOrders[k].id = id]

\* The list with the entries of the given id left out, the rest as they were.
Except(list, id) ==
  LET keep == { k \in 1..Len(list) : list[k].id # id }
      nth[n \in 0..Len(list)] ==
        IF n = 0 THEN 0 ELSE CHOOSE k \in keep : k > nth[n - 1] /\ \A j \in keep : j > nth[n - 1] => k <= j
  IN  [ n \in 1..Cardinality(keep) |-> list[nth[n]] ]

\* The one Order a step added to the history, in a list of at most one.
AddedOrders == SelectSeq(orders', LAMBDA o : o.id \notin IdsOf(orders))

StoresUnchanged == UNCHANGED << pendingOrders, orders, localStorage >>

\* Every batch present in both lists has the same originals in both.
SameOriginals(before, after) ==
  \A i \in 1..Len(before), j \in 1..Len(after) :
    before[i].id = after[j].id =>
      /\ after[j].originalItems = before[i].originalItems
      /\ after[j].originalTotalAmount = before[i].originalTotalAmount

C3_OriginalsImmutable ==
  [][ /\ SameOriginals(pendingOrders, pendingOrders')
      /\ SameOriginals(localStorage.pendingOrders, localStorage'.pendingOrders)
      /\ SameOriginals(localStorage.pendingOrders, pendingOrders')
      /\ SameOriginals(pendingOrders, localStorage'.pendingOrders) ]_vars

\* An adjustment changed the pending items of a batch that is still pending.
C3_Witness ==
  /\ last.op = "handleUpdatePending"
  /\ last.toast = "Pending Order Updated"
  /\ \E k \in 1..Len(pendingOrders) :
       /\ pendingOrders[k].id = last.id
       /\ pendingOrders[k].items # pendingOrders[k].originalItems

C5_ResolutionMovesBatch ==
  [][ ( /\ last'.op = "handleConfirmFullDelivery"
        /\ IsPending(last'.id) )
      => /\ pendingOrders' = Except(pendingOrders, last'.id)
         /\ Len(pendingOrders') = Len(pendingOrders) - 1
         /\ localStorage'.pendingOrders = pendingOrders'
         /\ Len(orders') = Len(orders) + 1
         /\ Len(AddedOrders) = 1
         /\ Except(orders', AddedOrders[1].id) = orders
         /\ AddedOrders[1].customerName = PendingOrderOf(last'.id).customerName
         /\ localStorage'.orders = orders' ]_vars

\* A batch was delivered while another batch stayed pending.
C5_Witness ==
  /\ last.op = "handleConfirmFullDelivery"
  /\ last.resolved # << >>
  /\ Len(pendingOrders) = 1
  /\ Len(orders) = 1
  /\ orders[1].customerName = last.resolved[1].customerName

\* C6 -- Idempotence of adjustment: resubmitting a batch's own pending items
\* leaves the batch pending with the same items and total, appends no Order,
\* and changes neither store, so a second resubmission starts from the same
\* state and ends in it.
C6_AdjustmentIdempotent ==
  [][ \A id \in 1..MaxIds :
        ( /\ IsPending(id)
          /\ handleUpdatePending(id, PendingOrderOf(id).items, PendingOrderOf(id).items) )
        => /\ IsPending(id)'
           /\ StoresUnchanged ]_vars

\* The pending items of an adjusted batch were resubmitted unchanged.
C6_Witness ==
  /\ last.op = "handleUpdatePending"
  /\ last.toast = "none"
  /\ last.resolved = << >>
  /\ \E k \in 1..Len(pendingOrders) :
       /\ pendingOrders[k].id = last.id
       /\ pendingOrders[k].items # pendingOrders[k].originalItems

\* C7 -- Create validation: create with a blank customer name is refused with
\* "Customer Name Required", create with no items with "No Items Staged"; in
\* both cases no batch is added and neither store changes.
C7_CreateValidation ==
  [][ \A customerName \in CustomerNames, itemsToAdd \in StagedItemLists :
        ( /\ IsBlank(customerName) \/ itemsToAdd = << >>
          /\ handleAddItemsToPendingList(customerName, itemsToAdd) )
        => /\ last'.toast = IF IsBlank(customerName) THEN "Customer Name Required"
                            ELSE "No Items Staged"
           /\ StoresUnchanged
           /\ nextId' = nextId ]_vars

\* A create was refused while a batch was pending.
C7_Witness ==
  /\ last.op = "handleAddItemsToPendingList"
  /\ last.toast \in {"Customer Name Required", "No Items Staged"}
  /\ Len(pendingOrders) > 0

\* C8 -- confirmFullDelivery on an id that is not pending is refused with the
\* "Error" toast, appends no Order and leaves both stores unchanged.
C8_ConfirmNotFound ==
  [][ ( /\ last'.op = "handleConfirmFullDelivery"
        /\ ~IsPending(last'.id) )
      => /\ last'.toast = "Error"
         /\ last'.resolved = << >>
         /\ StoresUnchanged
         /\ nextId' = nextId ]_vars

\* Delivery was refused for the id of a batch that had been resolved before.
C8_Witness ==
  /\ last.op = "handleConfirmFullDelivery"
  /\ last.toast = "Error"
  /\ last.id < nextId
  /\ Len(orders) > 0
  /\ last.id \notin IdsOf(orders)
  /\ ~IsPending(last.id)

\* C9 -- Aged-alert dedup: within one process an aged alert is raised at most
\* once for any order id, however often the effect is entered.
C9_AgedAlertOnce ==
  \A i \in 1..Len(agedAlerts), j \in 1..Len(agedAlerts) :
    agedAlerts[i] = agedAlerts[j] => i = j

\* An aged order was alerted and the component rendered again afterwards.
C9_Witness ==
  /\ Len(agedAlerts) > 0
  /\ initialAgedOrderCheckDone
  /\ last.op = "handleAddItemsToPendingList"
  /\ last.toast = "Order Batch Added to Queue"

\* C10 -- Explicit discard: removing a pending batch deletes exactly that batch
\* and adds no Order; removing an id that is not pending returns without a toast
\* and changes nothing.
C10_DiscardCreatesNoOrder ==
  [][ last'.op = "handleRemovePendingOrder"
      => /\ orders' = orders
         /\ localStorage'.orders = localStorage.orders
         /\ nextId' = nextId
         /\ IF IsPending(last'.id)
            THEN /\ pendingOrders' = Except(pendingOrders, last'.id)
                 /\ Len(pendingOrders') = Len(pendingOrders) - 1
                 /\ localStorage'.pendingOrders = pendingOrders'
            ELSE /\ last'.toast = "none"
                 /\ StoresUnchanged ]_vars

\* A batch was discarded while another batch stayed pending.
C10_Witness ==
  /\ last.op = "handleRemovePendingOrder"
  /\ last.toast = "Pending Order Removed"
  /\ Len(pendingOrders) = 1
  /\ ~IsPending(last.id)

\* ------------------------------------------------ notions for the claims below
BatchIn(list, id) == list[CHOOSE k \in 1..Len(list) : list[k].id = id]

AllPositive(items) == \A k \in 1..Len(items) : items[k].quantity > 0

\* The lines of positive quantity, in their order.
KeptLines(items) ==
  LET kept[k \in 0..Len(items)] ==
        IF k = 0 THEN << >>
        ELSE IF items[k].quantity > 0 THEN Append(kept[k - 1], items[k])
        ELSE kept[k - 1]
  IN  kept[Len(items)]

NewestFirst(list) ==
  \A i \in 1..Len(list), j \in 1..Len(list) :
    i < j => list[i].createdAt >= list[j].createdAt

\* Every entry of the first list is in the second, as it was.
Kept(before, after) ==
  /\ Len(after) >= Len(before)
  /\ \A i \in 1..Len(before) : \E j \in 1..Len(after) : after[j] = before[i]

AlertedIds == { agedAlerts[k] : k \in 1..Len(agedAlerts) }

OlderThanADay(timestamp) == now - timestamp > 24 * 60 * 60 * 1000

\* The aged-order check ran in this step.
AgedCheckRan == ~initialAgedOrderCheckDone /\ initialAgedOrderCheckDone'

OneLinePerProduct(items) ==
  \A i \in 1..Len(items), j \in 1..Len(items) :
    items[i].productId = items[j].productId => i = j

QuantityOf(items, productId) ==
  LET sum[k \in 0..Len(items)] ==
        IF k = 0 THEN 0
        ELSE sum[k - 1] + (IF items[k].productId = productId THEN items[k].quantity ELSE 0)
  IN  sum[Len(items)]

\* C11 -- Total consistency: in every reachable state the totalAmount of every
\* pending batch, in memory and persisted, is the sum of price * quantity over
\* its items.
C11_TotalConsistent ==
  /\ \A k \in 1..Len(pendingOrders) :
       pendingOrders[k].totalAmount = SumOfLines(pendingOrders[k].items)
  /\ \A k \in 1..Len(localStorage.pendingOrders) :
       localStorage.pendingOrders[k].totalAmount =
         SumOfLines(localStorage.pendingOrders[k].items)

\* An adjustment left a batch with other items and another total than it was
\* created with.
C11_Witness ==
  /\ last.op = "handleUpdatePending"
  /\ last.toast = "Pending Order Updated"
  /\ IsPending(last.id)
  /\ PendingOrderOf(last.id).items # PendingOrderOf(last.id).originalItems
  /\ PendingOrderOf(last.id).totalAmount # PendingOrderOf(last.id).originalTotalAmount

\* C12 -- Positive quantities: in every reachable state every line held in the
\* staging list, in a pending batch or in an Order has a quantity above 0; a
\* line whose quantity an adjustment sets to 0 is left out of the batch.
C12_PositiveQuantities ==
  /\ AllPositive(stagedItems)
  /\ \A k \in 1..Len(pendingOrders) :
       AllPositive(pendingOrders[k].items) /\ AllPositive(pendingOrders[k].originalItems)
  /\ \A k \in 1..Len(orders) : AllPositive(orders[k].items)
  /\ \A k \in 1..Len(localStorage.pendingOrders) :
       AllPositive(localStorage.pendingOrders[k].items)
  /\ \A k \in 1..Len(localStorage.orders) : AllPositive(localStorage.orders[k].items)

\* An adjustment set one of two lines to 0 and the batch holds the other line
\* only, while items are staged for the next batch.
C12_Witness ==
  /\ last.op = "handleUpdatePending"
  /\ last.toast = "Pending Order Updated"
  /\ IsPending(last.id)
  /\ Len(PendingOrderOf(last.id).originalItems) = 2
  /\ Len(PendingOrderOf(last.id).items) = 1
  /\ stagedItems # << >>

\* C13 -- Shrink-only: an adjustment that leaves the batch pending leaves it
\* with lines of products it held before, none with a larger quantity than
\* before.
C13_ShrinkOnly ==
  [][ ( /\ last'.op = "handleUpdatePending"
        /\ IsPending(last'.id)
        /\ last'.id \in IdsOf(pendingOrders') )
      => LET before == BatchIn(pendingOrders, last'.id).items
             after  == BatchIn(pendingOrders', last'.id).items
         IN  \A j \in 1..Len(after) :
               \E i \in 1..Len(before) :
                 /\ before[i].productId = after[j].productId
                 /\ after[j].quantity <= before[i].quantity ]_vars

\* C14 -- Partial adjustment keeps the batch pending: an adjustment with an
\* edited quantity above 0 leaves the batch pending under its id with exactly
\* the edited lines of positive quantity, appends no Order and leaves the other
\* batches as they were.
C14_PartialAdjustmentKeepsPending ==
  [][ \A id \in IdsOf(pendingOrders) :
        \A editedItems \in EditedItemLists(BatchIn(pendingOrders, id).items) :
          ( /\ last'.op = "handleUpdatePending"
            /\ last'.id = id
            /\ \E k \in 1..Len(editedItems) : editedItems[k].quantity > 0
            /\ handleUpdatePending(id, BatchIn(pendingOrders, id).items, editedItems) )
          => /\ id \in IdsOf(pendingOrders')
             /\ Len(pendingOrders') = Len(pendingOrders)
             /\ BatchIn(pendingOrders', id).items = KeptLines(editedItems)
             /\ Except(pendingOrders', id) = Except(pendingOrders, id)
             /\ orders' = orders
             /\ localStorage'.orders = localStorage.orders
             /\ localStorage'.pendingOrders = pendingOrders' ]_vars

\* One line of a batch of two was set to 0 while another batch was pending.
C14_Witness ==
  /\ last.op = "handleUpdatePending"
  /\ last.toast = "Pending Order Updated"
  /\ Len(pendingOrders) = 2
  /\ IsPending(last.id)
  /\ Len(PendingOrderOf(last.id).items) = 1
  /\ Len(PendingOrderOf(last.id).originalItems) = 2
  /\ orders = << >>

C16_HistoryAppendOnly ==
  [][ /\ Kept(localStorage.orders, localStorage'.orders)
      /\ (Loaded /\ Loaded') => Kept(orders, orders') ]_vars

\* A second Order was added to a history that held one.
C16_Witness ==
  /\ last.op \in {"handleConfirmFullDelivery", "handleUpdatePending"}
  /\ last.resolved # << >>
  /\ Len(orders) = 2
  /\ Len(localStorage.orders) = 2

C18_StageAddsOrIncrements ==
  [][ /\ OneLinePerProduct(stagedItems')
      /\ \A p \in Catalog, typed \in TypedQuantities :
           ( /\ last'.op = "handleStageItem"
             /\ ~IsBlank(currentCustomerName)
             /\ handleStageItem(p.id, ParsedQuantity(typed)) )
           => IF ParsedQuantity(typed) <= 0
              THEN /\ stagedItems' = stagedItems
                   /\ last'.toast = "Invalid Quantity"
              ELSE /\ QuantityOf(stagedItems', p.id) =
                        QuantityOf(stagedItems, p.id) + ParsedQuantity(typed)
                   /\ \A q \in Catalog \ {p} :
                        QuantityOf(stagedItems', q.id) = QuantityOf(stagedItems, q.id)
                   /\ Len(stagedItems') =
                        Len(stagedItems) + (IF QuantityOf(stagedItems, p.id) = 0 THEN 1 ELSE 0)
                   /\ \A k \in 1..Len(stagedItems) :
                        stagedItems'[k].productId = stagedItems[k].productId ]_vars

\* A product that had a line was staged again and its line grew.
C18_Witness ==
  /\ last.op = "handleStageItem"
  /\ last.toast = "Quantity Updated"
  /\ last.id = 1
  /\ Len(stagedItems) = 2
  /\ \E k \in 1..Len(stagedItems) : stagedItems[k].quantity = MaxQty

\* C19 (as amended) -- setQuantity: a new quantity of 0 or less leaves the line
\* in the list with quantity 1; a new quantity above 0 replaces the quantity of
\* the line; all other lines stay as they are.
C19_SetQuantityClampsAtOne ==
  [][ \A p \in Catalog, newQuantity \in 0..MaxQty :
        ( /\ last'.op = "handleUpdateStagedItemQuantity"
          /\ handleUpdateStagedItemQuantity(p.id, newQuantity) )
        => /\ Len(stagedItems') = Len(stagedItems)
           /\ \A k \in 1..Len(stagedItems) :
                IF stagedItems[k].productId = p.id
                THEN stagedItems'[k] =
                       [stagedItems[k] EXCEPT
                          !.quantity = IF newQuantity <= 0 THEN 1 ELSE newQuantity]
                ELSE stagedItems'[k] = stagedItems[k] ]_vars

\* The quantity of a line of 2 was set to 0 and the line is there with 1.
C19_Witness ==
  /\ last.op = "handleUpdateStagedItemQuantity"
  /\ last.id = 0
  /\ Len(stagedItems) = 2
  /\ \E k \in 1..Len(stagedItems) : stagedItems[k].quantity = 1
  /\ \E k \in 1..Len(stagedItems) : stagedItems[k].quantity = MaxQty

\* C19 (as claimed) -- setQuantity with a new quantity of 0 or less removes the
\* line from the list; with a new quantity above 0 it replaces the quantity.
C19_SetQuantityDropsAtZero ==
  [][ \A p \in Catalog, newQuantity \in 0..MaxQty :
        ( /\ last'.op = "handleUpdateStagedItemQuantity"
          /\ handleUpdateStagedItemQuantity(p.id, newQuantity) )
        => IF newQuantity <= 0
           THEN QuantityOf(stagedItems', p.id) = 0
           ELSE \/ QuantityOf(stagedItems, p.id) = 0
                \/ QuantityOf(stagedItems', p.id) = newQuantity ]_vars

\* The toast the catch block of a handler raises.
CatchToast(op) ==
  CASE op = "handleConfirmFullDelivery"          -> "Delivery Error"
    [] op = "handleUpdatePendingOrderQuantities" -> "Update Error"
    [] op = "handleRemovePendingOrder"           -> "Removal Error"

\* C20 -- Store failure leaves state untouched: over every step of a delivery,
\* an adjustment or a removal whose first store write is rejected (addOrder in
\* a delivery, update or delete in an adjustment or a removal), the handler
\* raises its error toast, the rejected write is the only store call of the
\* step, and the pending orders and the orders are what they were before.
C20_StoreFailureLeavesStateUntouched ==
  [][ ( /\ last'.op \in {"handleConfirmFullDelivery",
                         "handleUpdatePendingOrderQuantities",
                         "handleRemovePendingOrder"}
        /\ storeCalls' # << >>
        /\ storeCalls'[1].outcome = "rejected" )
      => ( /\ last'.toast = CatchToast(last'.op)
           /\ Len(storeCalls') = 1
           /\ pendingOrders' = pendingOrders
           /\ orders' = orders ) ]_vars

\* A delivery whose addOrder was rejected has run on a batch that is pending,
\* with an Order already in the history.
C20_Witness ==
  /\ last.op = "handleConfirmFullDelivery"
  /\ last.toast = "Delivery Error"
  /\ storeCalls # << >>
  /\ storeCalls[1].mutation = "addOrder"
  /\ storeCalls[1].outcome = "rejected"
  /\ last.id \in IdsOf(pendingOrders)
  /\ Len(orders) > 0

\* C21 -- Append-before-remove ordering: over every step in which a delivery or
\* an adjustment takes a batch out of the pending orders, the history after the
\* step holds an Order for the customer of that batch; a batch is never removed
\* by resolution with no Order for it.
C21_RemovedByResolutionHasOrder ==
  [][ \A k \in 1..Len(pendingOrders) :
        ( /\ last'.op \in {"handleConfirmFullDelivery",
                           "handleUpdatePendingOrderQuantities"}
          /\ pendingOrders[k].id \notin IdsOf(pendingOrders') )
        => \E j \in 1..Len(orders') :
             orders'[j].customerName = pendingOrders[k].customerName ]_vars

\* C22 -- Latest state before mutation: over every step in which the dialog
\* submits an adjustment that is written to a batch that stays pending, every
\* line that was not edited in the dialog (its edited quantity is the one of
\* the order the dialog was opened on) keeps the quantity the store held for it
\* before the step; an update made to the batch since the dialog was opened is
\* not overwritten.
C22_AdjustmentFromLatestStoredItems ==
  [][ \A p \in Catalog :
        ( /\ last'.op = "handleUpdatePendingOrderQuantities"
          /\ isDeliveryDialogOpen
          /\ ~isDeliveryDialogOpen'
          /\ selectedPendingOrderForDialog # << >>
          /\ storeCalls' # << >>
          /\ storeCalls'[1].outcome = "ok"
          /\ last'.id \in IdsOf(pendingOrders)
          /\ last'.id \in IdsOf(pendingOrders')
          /\ QuantityOf(dialogEditedItems, p.id)
               = QuantityOf(selectedPendingOrderForDialog[1].items, p.id) )
        => QuantityOf(BatchIn(pendingOrders', last'.id).items, p.id)
             = QuantityOf(BatchIn(pendingOrders, last'.id).items, p.id) ]_vars

\* C23 -- Adjustment of an absent batch is benign: over every step in which the
\* dialog submits an adjustment for an id that is not pending, whatever the
\* edited items, the pending orders, the orders and what is persisted of both
\* stay as they are: no Order is appended and no batch is created.
C23_AdjustmentOfAbsentIsBenign ==
  [][ ( /\ last'.op = "handleUpdatePending"
        /\ last'.id \notin IdsOf(pendingOrders) )
      => ( /\ pendingOrders' = pendingOrders
           /\ orders' = orders
           /\ localStorage' = localStorage
           /\ nextId' = nextId ) ]_vars

\* An all-zero adjustment was submitted for the id of a batch that had been
\* resolved or discarded, while another batch is pending and an Order is saved.
C23_Witness ==
  /\ last.op = "handleUpdatePending"
  /\ last.toast = "Pending Order Finalized"
  /\ last.resolved = << >>
  /\ last.id < nextId
  /\ last.id \notin IdsOf(pendingOrders)
  /\ last.id \notin IdsOf(orders)
  /\ Len(pendingOrders) > 0
  /\ Len(orders) > 0

\* The line of the product in the items of the entry of that id, as a list of
\* at most one.
LineOf(list, id, productId) ==
  IF id \in IdsOf(list)
  THEN SelectSeq(BatchIn(list, id).items, LAMBDA item : item.productId = productId)
  ELSE << >>

\* The line has the name and the price it had.
SameSnapshot(before, after) ==
  \/ before = << >>
  \/ after = << >>
  \/ /\ after[1].productName = before[1].productName
     /\ after[1].price = before[1].price

\* C24 -- Line items snapshot the product: over every step in which a product
\* is updated or deleted, the staged items, the pending orders and the orders
\* (lines, names, prices and totals) and what is persisted of them stay as they
\* are; and over every step whatever, a line that is staged, pending or saved
\* before and after the step keeps its productName and its price.
C24_LineItemsSnapshotProduct ==
  [][ /\ last'.op \in {"handleUpdateProduct", "handleDeleteProduct"}
        => /\ stagedItems' = stagedItems
           /\ pendingOrders' = pendingOrders
           /\ orders' = orders
           /\ localStorage'.pendingOrders = localStorage.pendingOrders
           /\ localStorage'.orders = localStorage.orders
      /\ \A p \in Catalog :
           /\ SameSnapshot(SelectSeq(stagedItems, LAMBDA item : item.productId = p.id),
                           SelectSeq(stagedItems', LAMBDA item : item.productId = p.id))
           /\ \A id \in 1..MaxIds :
                /\ SameSnapshot(LineOf(pendingOrders, id, p.id), LineOf(pendingOrders', id, p.id))
                /\ SameSnapshot(LineOf(orders, id, p.id), LineOf(orders', id, p.id)) ]_vars

\* A product was updated while a line of it with the earlier name or price
\* is staged and another is pending or saved in an Order.
C24_Witness ==
  /\ last.op = "handleUpdateProduct"
  /\ \E p \in products :
       /\ \E k \in 1..Len(stagedItems) :
            /\ stagedItems[k].productId = p.id
            /\ << stagedItems[k].productName, stagedItems[k].price >> # << p.name, p.price >>
       /\ \E list \in {pendingOrders, orders} :
            \E e \in 1..Len(list) : \E k \in 1..Len(list[e].items) :
              /\ list[e].items[k].productId = p.id
              /\ << list[e].items[k].productName, list[e].items[k].price >>
                   # << p.name, p.price >>

\* C25 -- Direct-save snapshot: over every step in which handleSaveOrder
\* creates its Order, the Order holds the items of the current order as they
\* are at that moment, and their total; every item of the current order that
\* the step clears is in the saved Order.
C25_SavedOrderIsCurrentOrder ==
  [][ ( /\ last'.op = "handleSaveOrderResumed"
        /\ Len(orders') = Len(orders) + 1 )
      => ( /\ orders'[1].items = currentOrderItems
           /\ orders'[1].totalAmount = SumOfLines(currentOrderItems) ) ]_vars

\* C26 -- Staging is cleared only after success: over every step in which the
\* staging area is submitted to the pending store, the customer name and the
\* staged items are reset only when the batch was added, and are what they
\* were when the add was rejected.
C26_StagingClearedOnlyAfterSuccess ==
  [][ ( /\ last'.op = "handleAddItemsToPendingList"
        /\ storeCalls' # << >>
        /\ stagedItems # << >> )
      => IF storeCalls'[1].outcome = "rejected"
         THEN /\ stagedItems' = stagedItems
              /\ currentCustomerName' = currentCustomerName
         ELSE /\ stagedItems' = << >>
              /\ Len(pendingOrders') = Len(pendingOrders) + 1 ]_vars

\* C27 -- Dialog edits are isolated: over every step that opens the delivery
\* dialog, changes a quantity in it or cancels it, the pending orders, the
\* orders and what is persisted are what they were before; and a step that
\* opens the dialog leaves it showing the stored items of the batch it was
\* opened on, whatever was edited in it before.
C27_DialogEditsAreIsolated ==
  [][ /\ ( last'.op \in {"handleOpenDeliveryDialog", "handleQuantityChange", "onOpenChange"}
           => ( /\ pendingOrders' = pendingOrders
                /\ orders' = orders
                /\ localStorage' = localStorage ) )
      /\ ( ( /\ last'.op = "handleOpenDeliveryDialog"
             /\ ~isDeliveryDialogOpen
             /\ isDeliveryDialogOpen' )
           => \E k \in 1..Len(pendingOrders') :
                /\ pendingOrders'[k].id = last'.id
                /\ dialogEditedItems' = pendingOrders'[k].items ) ]_vars

\* A quantity was changed in the dialog: the edited items differ from the
\* stored items of the batch, which are what the dialog was opened on.
C27_Witness ==
  /\ last.op = "handleQuantityChange"
  /\ isDeliveryDialogOpen
  /\ selectedPendingOrderForDialog # << >>
  /\ \E k \in 1..Len(pendingOrders) :
       /\ pendingOrders[k].id = selectedPendingOrderForDialog[1].id
       /\ pendingOrders[k].items = selectedPendingOrderForDialog[1].items
       /\ dialogEditedItems # pendingOrders[k].items

C29_AtMostOneOrderPerBatch ==
  [][ /\ ( last'.op \notin {"load", "restart"}
           => Len(orders') + Len(pendingOrders')
                <= Len(orders) + Len(pendingOrders)
                     + (IF last'.op = "handleAddItemsToPendingList" THEN 1 ELSE 0) )
      /\ ( ( /\ last'.op \in {"handleConfirmFullDelivery", "handleUpdatePending",
                              "handleUpdatePendingOrderQuantities"}
             /\ \A k \in 1..Len(pendingOrders) : pendingOrders[k].id # last'.id )
           => orders' = orders ) ]_vars

\* C30 -- Startup never clobbers persisted data: over every step, a restart
\* and the load that follows it leave what is persisted as it was, the load
\* leaves the products, the pending orders and the orders in memory equal to
\* what is persisted, and once loading has ended what is persisted of the
\* pending orders and of the orders is what is in memory after the step.
C30_StartupNeverClobbersPersistedData ==
  [][ /\ ( last'.op \in {"load", "restart"} => localStorage' = localStorage )
      /\ ( last'.op = "load"
           => ( /\ products' = localStorage.products
                /\ pendingOrders' = localStorage.pendingOrders
                /\ orders' = localStorage.orders ) )
      /\ ( (~isLoadingPendingOrders' /\ ~isLoadingOrders')
           => ( /\ localStorage'.pendingOrders = pendingOrders'
                /\ localStorage'.orders = orders'
                /\ localStorage'.products = products' ) ) ]_vars

\* The page was opened again over a persisted pending batch and a persisted
\* Order, and the load has brought both back.
C30_Witness ==
  /\ last.op = "load"
  /\ localStorage.pendingOrders # << >>
  /\ localStorage.orders # << >>
  /\ pendingOrders = localStorage.pendingOrders
  /\ orders = localStorage.orders

====
